---- MODULE Spec2Model ----
(***************************************************************************)
(* Model of main.py: the launch coordinator (main_async) and the           *)
(* per-credential lifecycle supervisors (run_sandbox_lifecycle) that run   *)
(* as asyncio tasks on one event loop.                                     *)
(*                                                                         *)
(* One action is one synchronous stretch of a coroutine, from one await    *)
(* to the next: the event loop never interleaves anything inside it.       *)
(*                                                                         *)
(* Texts are sequences of tokens.  A credential value is a sequence of     *)
(* characters, an environment variable name a sequence of name parts, an   *)
(* error text a sequence of words; `in`, startswith, lower and strip are   *)
(* computed on those sequences.                                            *)
(***************************************************************************)
EXTENDS Integers, Sequences, FiniteSets, TLC

VARIABLES
    mpc,            \* where main_async stands
    exit_status,    \* process exit status, -1 while the process runs
    exit_msg,       \* message of sys.exit(...), "" when none
    downtime_min,   \* args.downtime_min
    downtime_max,   \* args.downtime_max
    keys,           \* the merged credential list
    i,              \* loop index of the launch loop
    tasks,          \* the tasks list: indices of the supervisors created so far
    graceSleeps,    \* number of grace-period sleeps begun by the coordinator
    pc,             \* per supervisor: where run_sandbox_lifecycle stands
    attempt,        \* per supervisor: loop variable of the connection retry loop
    attemptsMade,   \* per supervisor: AsyncSandbox.create calls begun in this Connecting phase
    failSleeps,     \* per supervisor: failed-attempt sleeps begun in this Connecting phase
    session,        \* per supervisor: state of the sandbox sbx_instance refers to
    pend,           \* per supervisor: outcome of the async-with body awaiting __aexit__
    last            \* the operation that produced the current state, with its inputs

vars == <<mpc, exit_status, exit_msg, downtime_min, downtime_max, keys, i, tasks,
          graceSleeps, pc, attempt, attemptsMade, failSleeps, session, pend, last>>

mainVars == <<mpc, exit_status, exit_msg, downtime_min, downtime_max, keys, i, tasks,
              graceSleeps>>

(***************************************************************************)
(* Bounds of the model.                                                    *)
(***************************************************************************)
MaxKeys == 2        \* most credentials in a merged list
MaxEnvVars == 2     \* most variables in the environment
MaxKeyArgs == 2     \* most --key occurrences on the command line
DrawSpread == 0     \* random.randint(a, b) is explored for b and for a .. a + DrawSpread

(***************************************************************************)
(* Program constants.                                                      *)
(***************************************************************************)
ENV_PREFIX == <<"E2B_", "KEY_">>
MAX_CONNECTION_ATTEMPTS == 10

(***************************************************************************)
(* Input domains.                                                          *)
(***************************************************************************)
Whitespace == {" "}

\* "", " ", "a", " b"
Values == {<<>>, <<" ">>, <<"a">>, <<" ", "b">>}

\* E2B_KEY_1, E2B_KEY_2, E2B_HOME
EnvNames == {<<"E2B_", "KEY_", "1">>, <<"E2B_", "KEY_", "2">>, <<"E2B_", "HOME">>}

\* (--downtime-min, --downtime-max): the defaults, and min > max
DowntimeArgs == {<<30, 45>>, <<45, 30>>}

\* every pair of two values: min < max, min = max and min > max
AllDowntimeArgs == {30, 45} \X {30, 45}

\* Credentials are opaque to the supervisors, so the full program is explored for the
\* merged lists that are a prefix of LaunchOrder; the credential source alone is explored
\* for every merged list.
LaunchOrder == <<<<"a">>, <<>>, <<" ", "b">>, <<" ">>>>

LaunchLists == {SubSeq(LaunchOrder, 1, n) : n \in 0..MaxKeys}

ExitCodes == {0, 1}

ErrTimeout == <<"connection", "timeout">>
ErrBlocked == <<"Team", "Blocked">>
ErrSuspended == <<"account", "SUSPENDED">>
ErrNotFound == <<"The", "sandbox", "was", "not", "found">>
ErrBoth == <<"suspended", ":", "the", "sandbox", "was", "not", "found">>

ErrorTexts == {ErrTimeout, ErrBlocked, ErrSuspended, ErrNotFound, ErrBoth}

RECURSIVE SeqsUpTo(_, _)
SeqsUpTo(S, n) ==
    IF n = 0 THEN {<<>>}
    ELSE LET shorter == SeqsUpTo(S, n - 1)
         IN  shorter \cup {Append(q, x) : q \in {r \in shorter : Len(r) = n - 1}, x \in S}

Range(q) == {q[n] : n \in DOMAIN q}

\* os.environ after load_dotenv: (name, value) pairs in enumeration order, names distinct
Environments ==
    {e \in SeqsUpTo(EnvNames \X Values, MaxEnvVars) :
        \A m, n \in DOMAIN e : m # n => e[m][1] # e[n][1]}

\* args.key: the --key values in the order given; <<>> stands for None (no --key)
KeyArgs == SeqsUpTo(Values, MaxKeyArgs)

(***************************************************************************)
(* Text helpers.                                                           *)
(***************************************************************************)
startswith(s, prefix) ==
    /\ Len(s) >= Len(prefix)
    /\ SubSeq(s, 1, Len(prefix)) = prefix

RECURSIVE lstrip(_)
lstrip(v) ==
    IF v # <<>> /\ Head(v) \in Whitespace THEN lstrip(Tail(v)) ELSE v

RECURSIVE rstrip(_)
rstrip(v) ==
    IF v # <<>> /\ v[Len(v)] \in Whitespace THEN rstrip(SubSeq(v, 1, Len(v) - 1)) ELSE v

strip(v) == rstrip(lstrip(v))

lowerWord(w) ==
    CASE w = "Team" -> "team"
      [] w = "Blocked" -> "blocked"
      [] w = "SUSPENDED" -> "suspended"
      [] w = "The" -> "the"
      [] OTHER -> w

lower(text) == [n \in DOMAIN text |-> lowerWord(text[n])]

\* phrase in text
contains(text, phrase) ==
    \E n \in 1..(Len(text) - Len(phrase) + 1) :
        SubSeq(text, n, n + Len(phrase) - 1) = phrase

randint_past_b(a, b) == {n \in a..(b + 1) : n - a <= DrawSpread \/ n = b + 1}

\* random.randint(a, b): a value of a..b; the values explored are b and those up to
\* DrawSpread above a
randint(a, b) == {n \in a..b : n - a <= DrawSpread \/ n = b}

(***************************************************************************)
(* Credential source.                                                      *)
(***************************************************************************)
RECURSIVE env_keys(_, _)
env_keys(environ, prefix) ==
    IF environ = <<>> THEN <<>>
    ELSE LET k == Head(environ)[1]
             v == Head(environ)[2]
             rest == env_keys(Tail(environ), prefix)
         IN  IF startswith(k, prefix) /\ strip(v) # <<>> THEN <<v>> \o rest ELSE rest

\* the loop of main_async over env_keys() + (args.key or [])
RECURSIVE merge_loop(_, _, _)
merge_loop(candidates, seen, acc) ==
    IF candidates = <<>> THEN acc
    ELSE LET k == Head(candidates)
         IN  IF k \notin seen
             THEN merge_loop(Tail(candidates), seen \cup {k}, Append(acc, k))
             ELSE merge_loop(Tail(candidates), seen, acc)

merge_keys_no_seen(environ, key) == env_keys(environ, ENV_PREFIX) \o key

merge_keys(environ, key) == merge_loop(env_keys(environ, ENV_PREFIX) \o key, {}, <<>>)

(***************************************************************************)
(* Error classification.                                                   *)
(***************************************************************************)
\* "team blocked" in error_text or "suspended" in error_text
is_terminal(e) ==
    LET error_text == lower(e)
    IN  contains(error_text, <<"team", "blocked">>) \/ contains(error_text, <<"suspended">>)

is_expired_case_sensitive(e) == contains(e, <<"the", "sandbox", "was", "not", "found">>)

\* "the sandbox was not found" in error_text
is_expired(e) ==
    LET error_text == lower(e)
    IN  contains(error_text, <<"the", "sandbox", "was", "not", "found">>)

run_error_class_terminal_first(e) ==
    IF is_terminal(e) THEN "terminal"
    ELSE IF is_expired(e) THEN "expired"
    ELSE "error"

run_error_class_no_elif(e) == IF is_expired(e) THEN "expired" ELSE "error"

\* the if / elif / else of the run-phase handler
run_error_class(e) ==
    IF is_expired(e) THEN "expired"
    ELSE IF is_terminal(e) THEN "terminal"
    ELSE "error"

retry_allowed_after_last(a) == a < MAX_CONNECTION_ATTEMPTS

\* the connection loop goes round again after a failed attempt that slept
retry_allowed(a) == a < MAX_CONNECTION_ATTEMPTS - 1

(***************************************************************************)
(* State.                                                                  *)
(***************************************************************************)
NoPend == [kind |-> "none", code |-> 0, err |-> <<>>]

Sups == DOMAIN pc

Op(name, s, e, d, c) ==
    [op |-> name, sup |-> s, err |-> e, dur |-> d, code |-> c, environ |-> <<>>, key |-> <<>>]

Finished(s) == pc[s] = "abandoned"

Alive == mpc \in {"launch", "grace", "gather"}

Init ==
    /\ mpc = "init"
    /\ exit_status = -1
    /\ exit_msg = ""
    /\ downtime_min = 0
    /\ downtime_max = 0
    /\ keys = <<>>
    /\ i = 0
    /\ tasks = <<>>
    /\ graceSleeps = 0
    /\ pc = [s \in {} |-> "unborn"]
    /\ attempt = [s \in {} |-> 0]
    /\ attemptsMade = [s \in {} |-> 0]
    /\ failSleeps = [s \in {} |-> 0]
    /\ session = [s \in {} |-> "none"]
    /\ pend = [s \in {} |-> NoPend]
    /\ last = Op("init", -1, <<>>, 0, 0)

(***************************************************************************)
(* Launch coordinator: main_async.                                         *)
(***************************************************************************)
config_valid_unchecked(dmin, dmax) == TRUE

config_valid(dmin, dmax) == ~(dmin > dmax)

no_keys_unchecked(merged) == FALSE

\* `if not keys`
no_keys(merged) == merged = <<>>

\* the head of the launch loop at index n: `if i >= len(keys): break` leads to gather
loop_head(n, count) == IF n >= count THEN "gather" ELSE "launch"

\* load_dotenv, parse_args, the configuration check and the credential merge: one
\* synchronous stretch that ends in sys.exit or at the head of the launch loop
main_begin(explored, downtimes) ==
    /\ mpc = "init"
    /\ \E downtime \in downtimes, environ \in Environments, key \in KeyArgs :
          LET merged == merge_keys(environ, key)
              sups == 0..(Len(merged) - 1)
              dmin == downtime[1]
              dmax == downtime[2]
          IN  /\ merged \in explored
              /\ downtime_min' = dmin
              /\ downtime_max' = dmax
              /\ last' = [Op("main_begin", -1, <<>>, 0, 0)
                            EXCEPT !.environ = environ, !.key = key]
              /\ IF ~config_valid(dmin, dmax)
                 THEN /\ mpc' = "exit"
                      /\ exit_status' = 1
                      /\ exit_msg' = "Error: --downtime-min cannot be greater than --downtime-max"
                      /\ UNCHANGED <<keys, pc, attempt, attemptsMade, failSleeps, session, pend>>
                 ELSE IF no_keys(merged)
                 THEN /\ mpc' = "exit"
                      /\ exit_status' = 1
                      /\ exit_msg' = "No API keys found - set E2B_KEY_* or pass --key"
                      /\ UNCHANGED <<keys, pc, attempt, attemptsMade, failSleeps, session, pend>>
                 ELSE /\ mpc' = loop_head(0, Len(merged))
                      /\ keys' = merged
                      /\ pc' = [s \in sups |-> "unborn"]
                      /\ attempt' = [s \in sups |-> 0]
                      /\ attemptsMade' = [s \in sups |-> 0]
                      /\ failSleeps' = [s \in sups |-> 0]
                      /\ session' = [s \in sups |-> "none"]
                      /\ pend' = [s \in sups |-> NoPend]
                      /\ UNCHANGED <<exit_status, exit_msg>>
    /\ UNCHANGED <<i, tasks, graceSleeps>>

grace_after_none(n, count) == FALSE

grace_after_every(n, count) == n < count

\* the launch loop sleeps after creating task n unless it is the last one
grace_after(n, count) == n < count - 1

\* one pass of the launch loop: create_task, then the grace-period sleep or, without
\* one, straight on to the loop head, where after the last credential the loop breaks
\* and asyncio.gather is awaited
main_launch ==
    /\ mpc = "launch"
    /\ i < Len(keys)
    /\ pc' = [pc EXCEPT ![i] = "created"]
    /\ tasks' = Append(tasks, i)
    /\ IF grace_after(i, Len(keys))
       THEN \E grace_period \in randint(30, 45) :
               /\ mpc' = "grace"
               /\ i' = i
               /\ graceSleeps' = graceSleeps + 1
               /\ last' = Op("main_launch", i, <<>>, grace_period, 0)
       ELSE /\ mpc' = loop_head(i + 1, Len(keys))
            /\ i' = i + 1
            /\ graceSleeps' = graceSleeps
            /\ last' = Op("main_launch", i, <<>>, 0, 0)
    /\ UNCHANGED <<exit_status, exit_msg, downtime_min, downtime_max, keys,
                   attempt, attemptsMade, failSleeps, session, pend>>

next_index_same(n) == n

\* the loop index after the grace-period sleep
next_index(n) == n + 1

\* the grace-period sleep returns and the loop goes to its head with the next index.
\* The task created just before the sleep was already on the event loop's ready queue,
\* so it has taken its first step by then.
main_grace_elapsed ==
    /\ mpc = "grace"
    /\ \A s \in Sups : pc[s] # "created"
    /\ mpc' = loop_head(next_index(i), Len(keys))
    /\ i' = next_index(i)
    /\ last' = Op("main_grace_elapsed", -1, <<>>, 0, 0)
    /\ UNCHANGED <<exit_status, exit_msg, downtime_min, downtime_max, keys, tasks,
                   graceSleeps, pc, attempt, attemptsMade, failSleeps, session, pend>>

gather_ready_unawaited == TRUE

gather_ready_first == \E n \in DOMAIN tasks : Finished(tasks[n])

\* asyncio.gather(*tasks) has every result
gather_ready == \A n \in DOMAIN tasks : Finished(tasks[n])

\* asyncio.gather(*tasks) returns once every task has returned; asyncio.run then ends
main_gather_done ==
    /\ mpc = "gather"
    /\ gather_ready
    /\ mpc' = "done"
    /\ exit_status' = 0
    /\ last' = Op("main_gather_done", -1, <<>>, 0, 0)
    /\ UNCHANGED <<exit_msg, downtime_min, downtime_max, keys, i, tasks,
                   graceSleeps, pc, attempt, attemptsMade, failSleeps, session, pend>>

\* KeyboardInterrupt: asyncio.run cancels every task that has not returned
interrupt ==
    /\ Alive
    /\ mpc' = "interrupted"
    /\ exit_status' = 0
    /\ pc' = [s \in Sups |-> IF pc[s] \in {"unborn", "abandoned"} THEN pc[s] ELSE "cancelled"]
    /\ attempt' = [s \in Sups |-> 0]
    /\ attemptsMade' = [s \in Sups |-> 0]
    /\ failSleeps' = [s \in Sups |-> 0]
    /\ pend' = [s \in Sups |-> NoPend]
    /\ last' = Op("interrupt", -1, <<>>, 0, 0)
    /\ UNCHANGED <<exit_msg, downtime_min, downtime_max, keys, i, tasks, graceSleeps, session>>

AllLists == SeqsUpTo(Values, MaxEnvVars + MaxKeyArgs)

main_async == main_begin(LaunchLists, DowntimeArgs) \/ main_launch \/ main_grace_elapsed \/ main_gather_done

(***************************************************************************)
(* Lifecycle supervisor: run_sandbox_lifecycle, for supervisor s.          *)
(***************************************************************************)
supOnly(s) == UNCHANGED mainVars

\* the task's first step: tag, the head of the while loop, the first attempt begins
sup_start(s) ==
    /\ Alive
    /\ pc[s] = "created"
    /\ pc' = [pc EXCEPT ![s] = "connecting"]
    /\ attempt' = [attempt EXCEPT ![s] = 0]
    /\ attemptsMade' = [attemptsMade EXCEPT ![s] = 1]
    /\ failSleeps' = [failSleeps EXCEPT ![s] = 0]
    /\ session' = [session EXCEPT ![s] = "none"]
    /\ last' = Op("sup_start", s, <<>>, 0, 0)
    /\ UNCHANGED pend
    /\ supOnly(s)

\* AsyncSandbox.create returns: break, then the async with begins to enter the session
sup_connect_ok(s) ==
    /\ Alive
    /\ pc[s] = "connecting"
    /\ pc' = [pc EXCEPT ![s] = "entering"]
    /\ session' = [session EXCEPT ![s] = "open"]
    /\ attempt' = [attempt EXCEPT ![s] = 0]
    /\ attemptsMade' = [attemptsMade EXCEPT ![s] = 0]
    /\ failSleeps' = [failSleeps EXCEPT ![s] = 0]
    /\ last' = Op("sup_connect_ok", s, <<>>, 0, 0)
    /\ UNCHANGED pend
    /\ supOnly(s)

\* the task returns: its frame, and with it the loop variable, is gone
sup_return(s) ==
    /\ pc' = [pc EXCEPT ![s] = "abandoned"]
    /\ attempt' = [attempt EXCEPT ![s] = 0]
    /\ attemptsMade' = [attemptsMade EXCEPT ![s] = 0]
    /\ failSleeps' = [failSleeps EXCEPT ![s] = 0]
    /\ pend' = [pend EXCEPT ![s] = NoPend]

\* AsyncSandbox.create raises e: the except clause of the connection loop
sup_connect_fail(s) ==
    /\ Alive
    /\ pc[s] = "connecting"
    /\ \E e \in ErrorTexts :
          IF is_terminal(e)
          THEN /\ sup_return(s)
               /\ last' = Op("sup_connect_fail", s, e, 0, 0)
          ELSE IF retry_allowed(attempt[s])
          THEN \E fail_cooldown \in randint(60, 250) :
                  /\ pc' = [pc EXCEPT ![s] = "failsleep"]
                  /\ failSleeps' = [failSleeps EXCEPT ![s] = @ + 1]
                  /\ last' = Op("sup_connect_fail", s, e, fail_cooldown, 0)
                  /\ UNCHANGED <<attempt, attemptsMade, pend>>
          ELSE /\ sup_return(s)
               /\ last' = Op("sup_connect_fail", s, e, 0, 0)
    /\ UNCHANGED session
    /\ supOnly(s)

\* the failed-attempt sleep returns: the next attempt of range(MAX_CONNECTION_ATTEMPTS)
\* begins, or the range is used up and `if not sbx_instance: return` ends the task
sup_fail_sleep_elapsed(s) ==
    /\ Alive
    /\ pc[s] = "failsleep"
    /\ IF attempt[s] + 1 < MAX_CONNECTION_ATTEMPTS
       THEN /\ pc' = [pc EXCEPT ![s] = "connecting"]
            /\ attempt' = [attempt EXCEPT ![s] = @ + 1]
            /\ attemptsMade' = [attemptsMade EXCEPT ![s] = @ + 1]
            /\ UNCHANGED <<failSleeps, pend>>
       ELSE sup_return(s)
    /\ last' = Op("sup_fail_sleep_elapsed", s, <<>>, 0, 0)
    /\ UNCHANGED session
    /\ supOnly(s)

run_except_configured(s, e, name) ==
    LET class == run_error_class(e)
    IN  CASE class = "expired" ->
               \E downtime \in randint(360, 900) :
                  /\ pc' = [pc EXCEPT ![s] = "cool_expired"]
                  /\ pend' = [pend EXCEPT ![s] = NoPend]
                  /\ last' = Op(name, s, e, downtime, 0)
                  /\ UNCHANGED <<attempt, attemptsMade, failSleeps>>
          [] class = "terminal" ->
               /\ sup_return(s)
               /\ last' = Op(name, s, e, 0, 0)
          [] OTHER ->
               \E error_cooldown \in randint(downtime_min, downtime_max) :
                  /\ pc' = [pc EXCEPT ![s] = "cool_error"]
                  /\ pend' = [pend EXCEPT ![s] = NoPend]
                  /\ last' = Op(name, s, e, error_cooldown, 0)
                  /\ UNCHANGED <<attempt, attemptsMade, failSleeps>>

\* the except clause of the run phase, entered with error e by operation name
run_except(s, e, name) ==
    LET class == run_error_class(e)
    IN  CASE class = "expired" ->
               \E downtime \in randint(360, 900) :
                  /\ pc' = [pc EXCEPT ![s] = "cool_expired"]
                  /\ pend' = [pend EXCEPT ![s] = NoPend]
                  /\ last' = Op(name, s, e, downtime, 0)
                  /\ UNCHANGED <<attempt, attemptsMade, failSleeps>>
          [] class = "terminal" ->
               /\ sup_return(s)
               /\ last' = Op(name, s, e, 0, 0)
          [] OTHER ->
               \E error_cooldown \in randint(300, 600) :
                  /\ pc' = [pc EXCEPT ![s] = "cool_error"]
                  /\ pend' = [pend EXCEPT ![s] = NoPend]
                  /\ last' = Op(name, s, e, error_cooldown, 0)
                  /\ UNCHANGED <<attempt, attemptsMade, failSleeps>>

\* the session's __aenter__ returns: sbx.commands.run is awaited
sup_enter_ok(s) ==
    /\ Alive
    /\ pc[s] = "entering"
    /\ pc' = [pc EXCEPT ![s] = "launching"]
    /\ last' = Op("sup_enter_ok", s, <<>>, 0, 0)
    /\ UNCHANGED <<attempt, attemptsMade, failSleeps, session, pend>>
    /\ supOnly(s)

\* the session's __aenter__ raises e: no __aexit__ runs, the except clause handles e
sup_enter_raise(s) ==
    /\ Alive
    /\ pc[s] = "entering"
    /\ \E e \in ErrorTexts : run_except(s, e, "sup_enter_raise")
    /\ UNCHANGED session
    /\ supOnly(s)

\* sbx.commands.run returns the background process: sbx.get_info is awaited
sup_run_started(s) ==
    /\ Alive
    /\ pc[s] = "launching"
    /\ pc' = [pc EXCEPT ![s] = "info"]
    /\ last' = Op("sup_run_started", s, <<>>, 0, 0)
    /\ UNCHANGED <<attempt, attemptsMade, failSleeps, session, pend>>
    /\ supOnly(s)

\* sbx.get_info returns: proc.wait is awaited
sup_info_ok(s) ==
    /\ Alive
    /\ pc[s] = "info"
    /\ pc' = [pc EXCEPT ![s] = "waiting"]
    /\ last' = Op("sup_info_ok", s, <<>>, 0, 0)
    /\ UNCHANGED <<attempt, attemptsMade, failSleeps, session, pend>>
    /\ supOnly(s)

\* proc.wait returns with an exit code: the reports are printed and the async with
\* block is left normally, so __aexit__ is awaited with no exception
sup_wait_return(s) ==
    /\ Alive
    /\ pc[s] = "waiting"
    /\ \E code \in ExitCodes :
          /\ pend' = [pend EXCEPT ![s] = [kind |-> "exit", code |-> code, err |-> <<>>]]
          /\ last' = Op("sup_wait_return", s, <<>>, 0, code)
    /\ pc' = [pc EXCEPT ![s] = "exiting"]
    /\ UNCHANGED <<attempt, attemptsMade, failSleeps, session>>
    /\ supOnly(s)

\* commands.run, get_info or proc.wait raises e inside the async with block:
\* __aexit__ is awaited with the exception pending
sup_body_raise(s) ==
    /\ Alive
    /\ pc[s] \in {"launching", "info", "waiting"}
    /\ \E e \in ErrorTexts :
          /\ pend' = [pend EXCEPT ![s] = [kind |-> "error", code |-> 0, err |-> e]]
          /\ last' = Op("sup_body_raise", s, e, 0, 0)
    /\ pc' = [pc EXCEPT ![s] = "exiting"]
    /\ UNCHANGED <<attempt, attemptsMade, failSleeps, session>>
    /\ supOnly(s)

run_normal_exit_returns(s, code) ==
    /\ sup_return(s)
    /\ last' = Op("sup_exit_ok", s, <<>>, 0, code)

\* the code after the try statement: the normal cooldown, then the while loop goes round
run_normal_exit(s, code) ==
    \E downtime \in randint(downtime_min, downtime_max) :
       /\ pc' = [pc EXCEPT ![s] = "cool_normal"]
       /\ pend' = [pend EXCEPT ![s] = NoPend]
       /\ last' = Op("sup_exit_ok", s, <<>>, downtime, code)
       /\ UNCHANGED <<attempt, attemptsMade, failSleeps>>

\* __aexit__ returns, the session is released: a pending exception goes on to the except
\* clause; after a normal exit the normal cooldown is drawn and slept
sup_exit_ok(s) ==
    /\ Alive
    /\ pc[s] = "exiting"
    /\ session' = [session EXCEPT ![s] = "released"]
    /\ IF pend[s].kind = "error"
       THEN run_except(s, pend[s].err, "sup_exit_ok")
       ELSE run_normal_exit(s, pend[s].code)
    /\ supOnly(s)

\* __aexit__ itself raises e: e replaces whatever was pending and the except clause handles it
sup_exit_raise(s) ==
    /\ Alive
    /\ pc[s] = "exiting"
    /\ \E e \in ErrorTexts : run_except(s, e, "sup_exit_raise")
    /\ UNCHANGED session
    /\ supOnly(s)

sup_cooldown_elapsed_budget_kept(s) ==
    /\ Alive
    /\ pc[s] \in {"cool_normal", "cool_expired", "cool_error"}
    /\ pc' = [pc EXCEPT ![s] = "connecting"]
    /\ attempt' = [attempt EXCEPT ![s] = 1]
    /\ attemptsMade' = [attemptsMade EXCEPT ![s] = 1]
    /\ failSleeps' = [failSleeps EXCEPT ![s] = 0]
    /\ session' = [session EXCEPT ![s] = "none"]
    /\ last' = Op("sup_cooldown_elapsed", s, <<>>, 0, 0)
    /\ UNCHANGED pend
    /\ supOnly(s)

sup_cooldown_elapsed_serial(s) ==
    /\ Alive
    /\ pc[s] \in {"cool_normal", "cool_expired", "cool_error"}
    /\ \A t \in Sups \ {s} : pc[t] # "waiting"
    /\ pc' = [pc EXCEPT ![s] = "connecting"]
    /\ attempt' = [attempt EXCEPT ![s] = 0]
    /\ attemptsMade' = [attemptsMade EXCEPT ![s] = 1]
    /\ failSleeps' = [failSleeps EXCEPT ![s] = 0]
    /\ session' = [session EXCEPT ![s] = "none"]
    /\ last' = Op("sup_cooldown_elapsed", s, <<>>, 0, 0)
    /\ UNCHANGED pend
    /\ supOnly(s)

\* a cooldown sleep returns: back to the head of the while loop, sbx_instance = None,
\* and the first attempt of a new connection loop begins
sup_cooldown_elapsed(s) ==
    /\ Alive
    /\ pc[s] \in {"cool_normal", "cool_expired", "cool_error"}
    /\ pc' = [pc EXCEPT ![s] = "connecting"]
    /\ attempt' = [attempt EXCEPT ![s] = 0]
    /\ attemptsMade' = [attemptsMade EXCEPT ![s] = 1]
    /\ failSleeps' = [failSleeps EXCEPT ![s] = 0]
    /\ session' = [session EXCEPT ![s] = "none"]
    /\ last' = Op("sup_cooldown_elapsed", s, <<>>, 0, 0)
    /\ UNCHANGED pend
    /\ supOnly(s)

run_sandbox_lifecycle(s) ==
    \/ sup_start(s)
    \/ sup_connect_ok(s)
    \/ sup_connect_fail(s)
    \/ sup_fail_sleep_elapsed(s)
    \/ sup_enter_ok(s)
    \/ sup_enter_raise(s)
    \/ sup_run_started(s)
    \/ sup_info_ok(s)
    \/ sup_wait_return(s)
    \/ sup_body_raise(s)
    \/ sup_exit_ok(s)
    \/ sup_exit_raise(s)
    \/ sup_cooldown_elapsed(s)

Next ==
    \/ main_begin(LaunchLists, DowntimeArgs)
    \/ main_launch
    \/ main_grace_elapsed
    \/ main_gather_done
    \/ interrupt
    \/ \E s \in Sups : sup_start(s)
    \/ \E s \in Sups : sup_connect_ok(s)
    \/ \E s \in Sups : sup_connect_fail(s)
    \/ \E s \in Sups : sup_fail_sleep_elapsed(s)
    \/ \E s \in Sups : sup_enter_ok(s)
    \/ \E s \in Sups : sup_enter_raise(s)
    \/ \E s \in Sups : sup_run_started(s)
    \/ \E s \in Sups : sup_info_ok(s)
    \/ \E s \in Sups : sup_wait_return(s)
    \/ \E s \in Sups : sup_body_raise(s)
    \/ \E s \in Sups : sup_exit_ok(s)
    \/ \E s \in Sups : sup_exit_raise(s)
    \/ \E s \in Sups : sup_cooldown_elapsed(s)

Spec == Init /\ [][Next]_vars

\* What the event loop guarantees: a task that was created is run, and a sleep whose
\* time has come returns.  A connection attempt is taken to end, by returning or by
\* raising; a command may run for ever.
SupIds == 0..(MaxKeys - 1)

Fairness ==
    /\ WF_vars(main_launch)
    /\ WF_vars(main_grace_elapsed)
    /\ WF_vars(main_gather_done)
    /\ \A s \in SupIds :
          /\ WF_vars(s \in Sups /\ sup_start(s))
          /\ WF_vars(s \in Sups /\ (sup_connect_ok(s) \/ sup_connect_fail(s)))
          /\ WF_vars(s \in Sups /\ sup_fail_sleep_elapsed(s))
          /\ WF_vars(s \in Sups /\ sup_cooldown_elapsed(s))

FairSpec == Spec /\ Fairness

\* the credential source alone, for every environment, --key list and downtime pair
CredNext == main_begin(AllLists, AllDowntimeArgs)

CredSpec == Init /\ [][CredNext]_vars

\* The whole program for every downtime pair.  The downtime arguments are read by the
\* normal cooldown alone and a staggered launch takes two credentials, so the lists
\* explored are the first credential and the first two.
StaggerLists == {SubSeq(LaunchOrder, 1, 1), SubSeq(LaunchOrder, 1, 2)}

DowntimeNext ==
    \/ main_begin(StaggerLists, AllDowntimeArgs)
    \/ main_launch
    \/ main_grace_elapsed
    \/ main_gather_done
    \/ interrupt
    \/ \E s \in Sups : sup_start(s)
    \/ \E s \in Sups : sup_connect_ok(s)
    \/ \E s \in Sups : sup_connect_fail(s)
    \/ \E s \in Sups : sup_fail_sleep_elapsed(s)
    \/ \E s \in Sups : sup_enter_ok(s)
    \/ \E s \in Sups : sup_enter_raise(s)
    \/ \E s \in Sups : sup_run_started(s)
    \/ \E s \in Sups : sup_info_ok(s)
    \/ \E s \in Sups : sup_wait_return(s)
    \/ \E s \in Sups : sup_body_raise(s)
    \/ \E s \in Sups : sup_exit_ok(s)
    \/ \E s \in Sups : sup_exit_raise(s)
    \/ \E s \in Sups : sup_cooldown_elapsed(s)

DowntimeSpec == Init /\ [][DowntimeNext]_vars

(***************************************************************************)
(* Properties.                                                             *)
(***************************************************************************)
\* the phrases, as the specification names them
TerminalPhrase(e) ==
    \/ contains(lower(e), <<"team", "blocked">>)
    \/ contains(lower(e), <<"suspended">>)

ExpiredPhrase(e) == contains(lower(e), <<"the", "sandbox", "was", "not", "found">>)

\* the operations that hand an error to the except clause of the run phase
RunHandlerOps == {"sup_enter_raise", "sup_exit_ok", "sup_exit_raise"}

OtherSupsUnchanged(s) ==
    \A t \in Sups \ {s} :
        /\ pc'[t] = pc[t]
        /\ attempt'[t] = attempt[t]
        /\ attemptsMade'[t] = attemptsMade[t]
        /\ failSleeps'[t] = failSleeps[t]
        /\ session'[t] = session[t]
        /\ pend'[t] = pend[t]

\* C1: in one Connecting phase no more than 10 attempts are made; a non-terminal failure
\* of one of the first 9 attempts is followed by a failed-attempt sleep and then by the
\* next attempt; a non-terminal failure of the 10th attempt, which comes after exactly
\* 9 sleeps, is followed by Abandoned with no sleep.
C1_RetryBudget ==
    [][\A s \in Sups :
          /\ attemptsMade'[s] <= 10
          /\ (/\ pc[s] = "connecting"
              /\ last'.op = "sup_connect_fail"
              /\ last'.sup = s
              /\ ~TerminalPhrase(last'.err))
             => IF attemptsMade[s] < 10
                THEN /\ pc'[s] = "failsleep"
                     /\ failSleeps'[s] = attemptsMade[s]
                     /\ attemptsMade'[s] = attemptsMade[s]
                ELSE /\ failSleeps[s] = 9
                     /\ pc'[s] = "abandoned"
          /\ (pc[s] = "failsleep" /\ pc'[s] # "failsleep" /\ mpc' # "interrupted")
             => /\ pc'[s] = "connecting"
                /\ attemptsMade'[s] = attemptsMade[s] + 1
                /\ failSleeps'[s] = failSleeps[s]]_vars

\* C1, progress: under FairSpec every Connecting phase ends, with the session
\* created, with the supervisor Abandoned, or with the process interrupted; when every
\* attempt fails that end is Abandoned.
C1_ConnectingEnds ==
    \A s \in SupIds :
        (s \in Sups /\ pc[s] = "connecting")
        ~> (s \in Sups /\ pc[s] \in {"entering", "abandoned", "cancelled"})

\* a supervisor has just been abandoned by a non-terminal connection failure
C1_Witness ==
    /\ last.op = "sup_connect_fail"
    /\ ~TerminalPhrase(last.err)
    /\ pc[last.sup] = "abandoned"

\* C2 as stated, for the connection errors and for the errors raised inside the session
\* block: an error whose text holds a terminal phrase leaves the supervisor Abandoned,
\* whatever else the text holds.
C2_TerminalAlwaysAbandons ==
    (last.op \in {"sup_connect_fail", "sup_exit_ok"} /\ TerminalPhrase(last.err))
    => pc[last.sup] = "abandoned"

\* C2: a connection error whose text holds a terminal phrase, and a run-phase error whose
\* text holds a terminal phrase and not the session-expired phrase, leaves the supervisor
\* Abandoned with no sleep drawn.
C2_TerminalAbandons ==
    /\ (last.op = "sup_connect_fail" /\ TerminalPhrase(last.err))
       => (pc[last.sup] = "abandoned" /\ last.dur = 0)
    /\ (last.op \in RunHandlerOps /\ TerminalPhrase(last.err) /\ ~ExpiredPhrase(last.err))
       => (pc[last.sup] = "abandoned" /\ last.dur = 0)

\* a run-phase error with a terminal phrase has just abandoned a supervisor
C2_Witness ==
    /\ last.op \in RunHandlerOps
    /\ TerminalPhrase(last.err)
    /\ pc[last.sup] = "abandoned"

\* C3: when the command has reported exit code 0 and the session is left without an
\* error, the supervisor is in Cooldown(normal), and the only way it leaves that
\* cooldown (short of the process being interrupted) is to Connecting.
C3_CleanExitLoops ==
    [][\A s \in Sups :
          /\ (/\ pc[s] = "exiting"
              /\ pend[s].kind = "exit"
              /\ pend[s].code = 0
              /\ last'.op = "sup_exit_ok"
              /\ last'.sup = s)
             => pc'[s] = "cool_normal"
          /\ (pc[s] = "cool_normal" /\ pc'[s] # "cool_normal" /\ mpc' # "interrupted")
             => (pc'[s] = "connecting" /\ attemptsMade'[s] = 1)]_vars

\* a supervisor is in the normal cooldown after exit code 0
C3_Witness ==
    /\ last.op = "sup_exit_ok"
    /\ last.err = <<>>
    /\ last.code = 0
    /\ pc[last.sup] = "cool_normal"

\* C4: an Abandoned supervisor stays Abandoned and nothing of its state changes again.
C4_AbandonedTerminal ==
    [][\A s \in Sups :
          pc[s] = "abandoned"
          => /\ pc'[s] = "abandoned"
             /\ attempt'[s] = attempt[s]
             /\ attemptsMade'[s] = attemptsMade[s]
             /\ failSleeps'[s] = failSleeps[s]
             /\ session'[s] = session[s]
             /\ pend'[s] = pend[s]]_vars

\* one supervisor is Abandoned and another has just begun a new cycle
C4_Witness ==
    \E s \in Sups :
        /\ pc[s] = "abandoned"
        /\ last.sup # s
        /\ last.op = "sup_cooldown_elapsed"

\* C5: the tasks created are those of the credentials 0, 1, ... in order, one each; at
\* most N - 1 grace sleeps are ever begun; and once the launch loop is over, N tasks
\* have been created and N - 1 grace sleeps begun.
C5_LaunchCounts ==
    /\ Len(tasks) <= Len(keys)
    /\ \A n \in DOMAIN tasks : tasks[n] = n - 1
    /\ \A s \in Sups : (pc[s] # "unborn") <=> (s < Len(tasks))
    /\ keys # <<>> => graceSleeps <= Len(keys) - 1
    /\ mpc \in {"gather", "done"}
       => (Len(tasks) = Len(keys) /\ graceSleeps = Len(keys) - 1)

\* the launch loop is over, the first supervisor was abandoned meanwhile
C5_Witness ==
    /\ mpc = "gather"
    /\ Len(keys) >= 2
    /\ pc[0] = "abandoned"
    /\ pc[Len(keys) - 1] = "created"

\* C6: a step that abandons one supervisor changes neither another supervisor nor the
\* coordinator; at the head of the launch loop the next credential's supervisor is
\* there to be launched; the loop is over only when every supervisor was launched;
\* and the process ends, other than by an interrupt or a start-up error, only when
\* every supervisor is Abandoned.
C6_Independent ==
    [][/\ \A s \in Sups :
             (pc[s] # "abandoned" /\ pc'[s] = "abandoned")
             => (OtherSupsUnchanged(s) /\ UNCHANGED mainVars)
       /\ mpc' = "launch" => (i' < Len(keys') /\ pc'[i'] = "unborn")
       /\ mpc' \in {"gather", "done"} => \A s \in Sups : pc'[s] # "unborn"
       /\ mpc' = "done" => \A s \in Sups : pc'[s] = "abandoned"
       /\ exit_status' # -1 => mpc' \in {"exit", "interrupted", "done"}]_vars

\* the first supervisor is Abandoned and the coordinator is about to launch the second
C6_Witness ==
    /\ mpc = "launch"
    /\ Len(keys) >= 2
    /\ pc[0] = "abandoned"
    /\ pc[1] = "unborn"

\* C7: with the minimum cooldown above the maximum, the process has ended with status 1
\* and the configuration error message, and no supervisor exists.
C7_BadConfigExits ==
    downtime_min > downtime_max
    => /\ mpc = "exit"
       /\ exit_status = 1
       /\ exit_msg = "Error: --downtime-min cannot be greater than --downtime-max"
       /\ tasks = <<>>
       /\ graceSleeps = 0
       /\ Sups = {}

\* a bad configuration has ended the process although credentials were there
C7_Witness ==
    /\ downtime_min > downtime_max
    /\ mpc = "exit"
    /\ last.op = "main_begin"
    /\ env_keys(last.environ, ENV_PREFIX) # <<>>
    /\ last.key # <<>>

\* C8: when no credential is found, the process has ended with a non-zero status and a
\* message, no supervisor exists and no grace sleep was begun; with a valid
\* configuration the message is the one about the missing keys.
C8_NoKeysExits ==
    (/\ mpc # "init"
     /\ \/ keys = <<>>
        \/ (last.op = "main_begin" /\ env_keys(last.environ, ENV_PREFIX) \o last.key = <<>>))
    => /\ mpc = "exit"
       /\ exit_status # 0
       /\ exit_status # -1
       /\ exit_msg # ""
       /\ downtime_min <= downtime_max
          => exit_msg = "No API keys found - set E2B_KEY_* or pass --key"
       /\ tasks = <<>>
       /\ graceSleeps = 0
       /\ Sups = {}

\* a valid configuration without any credential has ended the process
C8_Witness ==
    /\ mpc = "exit"
    /\ downtime_min <= downtime_max
    /\ last.op = "main_begin"
    /\ last.environ # <<>>
    /\ keys = <<>>

\* position of the first occurrence of x in q
FirstIndex(q, x) == CHOOSE n \in DOMAIN q : q[n] = x /\ \A m \in 1..(n - 1) : q[m] # x

\* C9: with a valid configuration, the merged list holds every value of the
\* concatenation (environment-sourced values, then --key values), each once, in the
\* order of their first occurrences there.
C9_MergeDedupes ==
    (last.op = "main_begin" /\ downtime_min <= downtime_max)
    => LET cat == env_keys(last.environ, ENV_PREFIX) \o last.key
       IN  /\ Range(keys) = Range(cat)
           /\ \A m, n \in DOMAIN keys : m # n => keys[m] # keys[n]
           /\ \A m, n \in DOMAIN keys :
                 m < n => FirstIndex(cat, keys[m]) < FirstIndex(cat, keys[n])

\* a value twice in the environment and again among the --key values, after a new one
C9_Witness ==
    LET ek == env_keys(last.environ, ENV_PREFIX)
    IN  /\ last.op = "main_begin"
        /\ mpc = "launch"
        /\ Len(ek) = 2
        /\ ek[1] = ek[2]
        /\ Len(last.key) = 2
        /\ last.key[1] # ek[1]
        /\ last.key[2] = ek[1]
        /\ keys = <<ek[1], last.key[1]>>

\* C10 as stated: every credential the coordinator hands to a supervisor is non-blank;
\* no supervisor is ever created for an empty or blank value.
C10_CredentialsNonBlank ==
    \A s \in Sups : pc[s] # "unborn" => strip(keys[s + 1]) # <<>>

\* C11: whenever the coordinator has accepted the downtime arguments and a supervisor
\* has just begun a normal cooldown, the duration it sleeps is an integer of the closed
\* interval [downtime_min, downtime_max]; with min = max it is that one value.
C11_NormalCooldownInRange ==
    /\ Sups # {} => downtime_min <= downtime_max
    /\ \A s \in Sups :
          (pc[s] = "cool_normal" /\ last.op = "sup_exit_ok" /\ last.sup = s)
          => /\ last.dur \in Int
             /\ downtime_min <= last.dur
             /\ last.dur <= downtime_max
             /\ downtime_min = downtime_max => last.dur = downtime_min

\* a normal cooldown under downtime arguments that are equal and not the defaults
C11_Witness ==
    /\ downtime_min = downtime_max
    /\ downtime_min # 30
    /\ last.op = "sup_exit_ok"
    /\ pc[last.sup] = "cool_normal"
    /\ last.dur = downtime_max

\* C12: under every accepted pair of downtime arguments, a sleep begun after a
\* session-expired error lasts 360 to 900 seconds, one after any other non-terminal run
\* error 300 to 600, one after a failed connection attempt 60 to 250, and the
\* coordinator's sleep after a launch 30 to 45.
C12_FixedRanges ==
    /\ (last.op \in RunHandlerOps /\ pc[last.sup] = "cool_expired")
       => (360 <= last.dur /\ last.dur <= 900)
    /\ (last.op \in RunHandlerOps /\ pc[last.sup] = "cool_error")
       => (300 <= last.dur /\ last.dur <= 600)
    /\ (last.op = "sup_connect_fail" /\ pc[last.sup] = "failsleep")
       => (60 <= last.dur /\ last.dur <= 250)
    /\ (last.op = "main_launch" /\ mpc = "grace")
       => (30 <= last.dur /\ last.dur <= 45)

\* an error cooldown begun under downtime arguments that are not the defaults, while the
\* other supervisor sleeps after a failed attempt
C12_Witness ==
    /\ downtime_min = downtime_max
    /\ last.op \in RunHandlerOps
    /\ pc[last.sup] = "cool_error"
    /\ \E s \in Sups : pc[s] = "failsleep"

\* C13: a run-phase error whose text holds the session-expired phrase (in any letter
\* case) puts the supervisor in Cooldown(expired); one that holds neither that phrase
\* nor a terminal phrase puts it in Cooldown(error); in both cases exactly one sleep
\* has been drawn and the supervisor is not Abandoned; and the only way out of either
\* cooldown (short of the process being interrupted) is to Connecting with a new
\* attempt budget, never to Cooldown(normal).
C13_RunErrorCooldowns ==
    [][\A s \in Sups :
          /\ (last'.op \in RunHandlerOps /\ last'.sup = s /\ ExpiredPhrase(last'.err))
             => (pc'[s] = "cool_expired" /\ last'.dur > 0)
          /\ (/\ last'.op \in RunHandlerOps
              /\ last'.sup = s
              /\ last'.err # <<>>
              /\ ~ExpiredPhrase(last'.err)
              /\ ~TerminalPhrase(last'.err))
             => (pc'[s] = "cool_error" /\ last'.dur > 0)
          /\ (/\ pc[s] \in {"cool_expired", "cool_error"}
              /\ pc'[s] # pc[s]
              /\ mpc' # "interrupted")
             => (pc'[s] = "connecting" /\ attemptsMade'[s] = 1)]_vars

\* the session-expired error, spelt with a capital, has just begun Cooldown(expired)
C13_Witness ==
    /\ last.op \in RunHandlerOps
    /\ last.err = ErrNotFound
    /\ pc[last.sup] = "cool_expired"

\* C14 as stated, for the run phases that ended on leaving the session block: however
\* the run phase ended (clean exit, non-zero exit, or an error raised), the supervisor
\* that has gone on to a Cooldown or to Abandoned no longer holds the session of that
\* cycle, it has been released; and a supervisor in the run phase holds an open session.
C14_SessionReleased ==
    /\ \A s \in Sups :
          pc[s] \in {"entering", "launching", "info", "waiting", "exiting"}
          => session[s] = "open"
    /\ (/\ last.op \in {"sup_exit_ok", "sup_exit_raise"}
        /\ pc[last.sup] \in {"cool_normal", "cool_expired", "cool_error", "abandoned"})
       => session[last.sup] = "released"

\* C15: once every supervisor is launched and the coordinator waits, its wait can
\* complete exactly when every supervisor is Abandoned; the process has ended that way
\* (status 0, no interrupt) only with every supervisor Abandoned; and while some
\* supervisor is Connecting, Running or in a Cooldown the coordinator has not finished.
C15_WaitIffAllAbandoned ==
    /\ mpc = "gather"
       => (ENABLED main_gather_done <=> \A s \in Sups : pc[s] = "abandoned")
    /\ mpc # "gather" => ~ENABLED main_gather_done
    /\ mpc = "done" => (exit_status = 0 /\ \A s \in Sups : pc[s] = "abandoned")
    /\ (\E s \in Sups : pc[s] \notin {"unborn", "created", "abandoned", "cancelled"})
       => mpc # "done"

\* C15, progress: under FairSpec, when the coordinator waits and every supervisor is
\* Abandoned, the wait completes (or the process is interrupted first).
C15_WaitCompletes ==
    (mpc = "gather" /\ \A s \in Sups : pc[s] = "abandoned")
    ~> (mpc \in {"done", "interrupted"})

\* the wait has just completed over two or more supervisors
C15_Witness ==
    /\ last.op = "main_gather_done"
    /\ mpc = "done"
    /\ Len(keys) >= 2
    /\ \A s \in Sups : pc[s] = "abandoned"

\* C16: when a supervisor makes its first connection attempt, every supervisor of an
\* earlier credential has made its first already, and, for any supervisor but the
\* first, the coordinator's sleep that followed the launch before has been begun and
\* has elapsed; while the coordinator sleeps after a launch, or stands at the head of
\* the launch loop, no supervisor of a later credential exists as a task.
C16_StaggeredOrder ==
    [][/\ \A t \in Sups :
             (pc[t] = "created" /\ pc'[t] = "connecting")
             => /\ \A s \in Sups : s < t => pc[s] \notin {"unborn", "created"}
                /\ graceSleeps >= t
                /\ i >= t
                /\ t > 0 => ~(mpc = "grace" /\ i = t - 1)
       /\ mpc' = "grace" => \A t \in Sups : t > i' => pc'[t] = "unborn"
       /\ mpc' = "launch" => \A t \in Sups : t >= i' => pc'[t] = "unborn"]_vars

\* the second supervisor has just made its first attempt, after the first one's
C16_Witness ==
    /\ last.op = "sup_start"
    /\ last.sup = 1
    /\ pc[1] = "connecting"
    /\ pc[0] \notin {"unborn", "created"}
    /\ graceSleeps >= 1

\* every transition a supervisor has at its position is enabled there, wherever the
\* other supervisors and the coordinator stand; the coordinator at the head of the
\* launch loop can launch, and its grace-period sleep can return once the task it
\* created has taken its first step
C17_EachCanStep ==
    Alive
    => /\ \A t \in Sups :
             /\ pc[t] = "created" => ENABLED sup_start(t)
             /\ pc[t] = "connecting"
                => (ENABLED sup_connect_ok(t) /\ ENABLED sup_connect_fail(t))
             /\ pc[t] = "failsleep" => ENABLED sup_fail_sleep_elapsed(t)
             /\ pc[t] = "entering"
                => (ENABLED sup_enter_ok(t) /\ ENABLED sup_enter_raise(t))
             /\ pc[t] = "launching"
                => (ENABLED sup_run_started(t) /\ ENABLED sup_body_raise(t))
             /\ pc[t] = "info" => (ENABLED sup_info_ok(t) /\ ENABLED sup_body_raise(t))
             /\ pc[t] = "waiting"
                => (ENABLED sup_wait_return(t) /\ ENABLED sup_body_raise(t))
             /\ pc[t] = "exiting"
                => (ENABLED sup_exit_ok(t) /\ ENABLED sup_exit_raise(t))
             /\ pc[t] \in {"cool_normal", "cool_expired", "cool_error"}
                => ENABLED sup_cooldown_elapsed(t)
       /\ mpc = "launch" => ENABLED main_launch
       /\ (mpc = "grace" /\ \A t \in Sups : pc[t] # "created")
          => ENABLED main_grace_elapsed

\* C17: no supervisor's position disables a transition of another supervisor or of the
\* coordinator, and under FairSpec, where a running command may never exit, a
\* supervisor in a Cooldown is Connecting again later on, unless the process is
\* interrupted first.
C17_NoBlocking ==
    /\ []C17_EachCanStep
    /\ \A s \in SupIds :
          (s \in Sups /\ pc[s] \in {"cool_normal", "cool_expired", "cool_error"})
          ~> ((s \in Sups /\ pc[s] = "connecting") \/ mpc = "interrupted")

\* one supervisor waits for its command while another has just left a cooldown
C17_Witness ==
    /\ last.op = "sup_cooldown_elapsed"
    /\ pc[last.sup] = "connecting"
    /\ \E s \in Sups : s # last.sup /\ pc[s] = "waiting"

\* C18: every entry to Connecting, the first and each one after a Cooldown, begins the
\* first attempt of a new range of 10 with no attempt and no sleep counted; within the
\* phase each further attempt advances the loop variable by one; and a connection
\* failure without a terminal phrase abandons the supervisor only at the 10th attempt
\* of the phase, after 9 failed-attempt sleeps of that phase.
C18_BudgetPerCycle ==
    [][\A s \in Sups :
          /\ (/\ pc[s] \in {"created", "cool_normal", "cool_expired", "cool_error"}
              /\ pc'[s] = "connecting")
             => /\ attempt'[s] = 0
                /\ attemptsMade'[s] = 1
                /\ failSleeps'[s] = 0
                /\ session'[s] = "none"
          /\ pc'[s] \in {"connecting", "failsleep"} => attemptsMade'[s] = attempt'[s] + 1
          /\ (/\ pc[s] = "connecting"
              /\ pc'[s] = "abandoned"
              /\ last'.op = "sup_connect_fail"
              /\ ~TerminalPhrase(last'.err))
             => /\ attempt[s] = MAX_CONNECTION_ATTEMPTS - 1
                /\ attemptsMade[s] = 10
                /\ failSleeps[s] = 9]_vars

\* a supervisor has just left a Cooldown and begins a Connecting phase
C18_Witness ==
    /\ last.op = "sup_cooldown_elapsed"
    /\ pc[last.sup] = "connecting"
    /\ attempt[last.sup] = 0
    /\ attemptsMade[last.sup] = 1

\* C19: an error whose text holds both the session-expired phrase and a terminal
\* phrase, when the run-phase handler receives it, puts the supervisor in
\* Cooldown(expired) with a sleep of 360 to 900 seconds, from which it goes on to a new
\* cycle; the same text raised by a connection attempt leaves the supervisor Abandoned
\* with no sleep.
C19_ExpiredBeforeTerminal ==
    /\ (/\ last.op \in RunHandlerOps
        /\ ExpiredPhrase(last.err)
        /\ TerminalPhrase(last.err))
       => /\ pc[last.sup] = "cool_expired"
          /\ last.dur >= 360
          /\ last.dur <= 900
          /\ ENABLED sup_cooldown_elapsed(last.sup)
    /\ (/\ last.op = "sup_connect_fail"
        /\ ExpiredPhrase(last.err)
        /\ TerminalPhrase(last.err))
       => (pc[last.sup] = "abandoned" /\ last.dur = 0)

\* a run error with both phrases has begun Cooldown(expired) for one supervisor, while
\* another is Abandoned
C19_Witness ==
    /\ last.op \in RunHandlerOps
    /\ last.err = ErrBoth
    /\ pc[last.sup] = "cool_expired"
    /\ \E s \in Sups : pc[s] = "abandoned"

\* what the three-way rule makes of error text e
RuleOutcome(e) ==
    IF ExpiredPhrase(e) THEN "cool_expired"
    ELSE IF TerminalPhrase(e) THEN "abandoned"
    ELSE "cool_error"

\* C20 as stated: whichever step of the run phase raised the error (acquiring the
\* session, issuing the command, the session-info query, the wait), once the handler
\* has dealt with it the session has been released and the supervisor is where the
\* three-way rule puts it.
C20_RunErrorsReleaseAndClassify ==
    (last.op \in RunHandlerOps /\ last.err # <<>>)
    => /\ pc[last.sup] = RuleOutcome(last.err)
       /\ session[last.sup] = "released"

\* C20, the part that holds: every error of the run phase is classified by the
\* three-way rule, and one raised inside the session block, when the release that
\* follows succeeds, finds the session released.
C20_ClassifiedAlike ==
    (last.op \in RunHandlerOps /\ last.err # <<>>)
    => /\ pc[last.sup] = RuleOutcome(last.err)
       /\ last.op = "sup_exit_ok" => session[last.sup] = "released"

====
